---- MODULE Spec2Model ----
(***************************************************************************)
(* Model of src/worker.js: the Cloudflare Worker that serves three tools   *)
(* (list_r2_files, read_r2_file, search_vectors) over JSON-RPC 2.0 / MCP   *)
(* and over a legacy flat {method, params} body.                           *)
(*                                                                         *)
(* One request is followed from its arrival to the settlement of the       *)
(* promise fetch() returns.  The handler is cut at its await points: every *)
(* action is the synchronous code that runs between two awaits, and the    *)
(* outcome of the awaited collaborator call (a value or a thrown value) is *)
(* the action's input.                                                     *)
(***************************************************************************)
EXTENDS Integers, Sequences, FiniteSets, TLC

VARIABLES pc, env, req, loc, world, calls, route, resp

vars == <<pc, env, req, loc, world, calls, route, resp>>

-----------------------------------------------------------------------------
(* Bounds of the model *)

\* longest path string a request carries (characters)
MaxPathLen == 2

-----------------------------------------------------------------------------
(* JavaScript values *)

\* scalar JSON values as the code sees them (s is the text of the value)
JsUndef == [t |-> "undefined", s |-> ""]
JsNull == [t |-> "null", s |-> ""]
JsStr(s) == [t |-> "string", s |-> s]
JsNum(d) == [t |-> "number", s |-> d]

\* ToBoolean: undefined, null, "" and 0 are falsy
Truthy(v) == /\ v.t \notin {"undefined", "null"}
             /\ ~(v.t = "string" /\ v.s = "")
             /\ ~(v.t = "number" /\ v.s = "0")

\* template-literal / String() rendering of a scalar
Render(v) == IF v.t \in {"undefined", "null"} THEN v.t ELSE v.s

\* a ?? b
Coalesce(v, d) == IF v.t \in {"undefined", "null"} THEN d ELSE v

\* path values keep their characters (c) because the code inspects the last one
PathChars == {"a", "/"}
PUndef == [t |-> "undefined", c |-> <<>>]
PNull == [t |-> "null", c |-> <<>>]
PStr(c) == [t |-> "string", c |-> c]
PNum(d) == [t |-> "number", c |-> <<d>>]

RECURSIVE Text(_)
\* the string made of the characters c
Text(c) == IF c = <<>> THEN "" ELSE Head(c) \o Text(Tail(c))

PTruthy(p) == /\ p.t \notin {"undefined", "null"}
              /\ ~(p.t = "string" /\ p.c = <<>>)
              /\ ~(p.t = "number" /\ p.c = <<"0">>)

\* String.prototype.endsWith("/")
EndsWithSlash(c) == Len(c) > 0 /\ c[Len(c)] = "/"

-----------------------------------------------------------------------------
(* Thrown values *)

\* an Error object, a thrown primitive (no .message), and a thrown null/undefined
ErrorOf(m) == [k |-> "Error", message |-> m]
ThrownPrimitive == [k |-> "primitive", message |-> ""]
ThrownNullish == [k |-> "nullish", message |-> ""]
NoThrow == [k |-> "none", message |-> ""]

Thrown == {ErrorOf("boom"), ThrownPrimitive, ThrownNullish}

\* reading e.message itself throws when e is null or undefined
MessageReadThrows(e) == e.k = "nullish"
\* `${e.message}` when the read succeeds
MessageText(e) == IF e.k = "Error" THEN e.message ELSE "undefined"
\* the TypeError raised by null.message
TypeErrorMessage == ErrorOf("Cannot read properties of null (reading 'message')")

-----------------------------------------------------------------------------
(* Response envelopes *)

CodeInvalidRequest == -32600
CodeParseError == -32700
CodeMethodNotFound == -32601
CodeInvalidParams == -32602
CodeInternalError == -32603

NoResponse ==
    [settled |-> "pending", status |-> 0, ctype |-> "", plain |-> "",
     jsonrpc |-> "", hasId |-> FALSE, id |-> JsUndef,
     hasResult |-> FALSE, result |-> "", hasError |-> FALSE, code |-> 0,
     message |-> "", hasContent |-> FALSE, text |-> ""]

\* the promise of fetch() rejects: no Response at all
Rejected == [NoResponse EXCEPT !.settled = "rejected"]

\* JSON.stringify drops a member whose value is undefined
jsonRpcResult(id, kind, text) ==
    [NoResponse EXCEPT !.settled = "returned", !.status = 200,
                       !.ctype = "application/json", !.jsonrpc = "2.0",
                       !.hasId = (id.t # "undefined"), !.id = id,
                       !.hasResult = TRUE, !.result = kind, !.text = text]

jsonRpcError(id, code, message) ==
    [NoResponse EXCEPT !.settled = "returned", !.status = 200,
                       !.ctype = "application/json", !.jsonrpc = "2.0",
                       !.hasId = (id.t # "undefined"), !.id = id,
                       !.hasError = TRUE, !.code = code, !.message = message]

legacyJson(text) ==
    [NoResponse EXCEPT !.settled = "returned", !.status = 200,
                       !.ctype = "application/json",
                       !.hasContent = TRUE, !.text = text]

HealthResponse ==
    [NoResponse EXCEPT !.settled = "returned", !.status = 200,
                       !.plain = "MCP Worker is running. Send JSON-RPC 2.0 via POST."]

-----------------------------------------------------------------------------
(* Requests *)

NoArgs == [path |-> PUndef, query |-> JsUndef, topK |-> JsUndef]

NoParams ==
    [present |-> FALSE, name |-> JsUndef, hasArguments |-> FALSE,
     arguments |-> NoArgs, own |-> NoArgs]

CharSeqs(n) == UNION {[1..k -> PathChars] : k \in 0..n}

Paths == {PUndef, PNull, PNum("7")} \cup {PStr(c) : c \in CharSeqs(MaxPathLen)}
Queries == {JsUndef, JsStr(""), JsStr("cats")}
TopKs == {JsUndef, JsNum("3")}

\* argument mappings: {path?} for the storage tools, {query?, topK?} for search
ArgSets ==
    {[path |-> p, query |-> JsUndef, topK |-> JsUndef] : p \in Paths}
    \cup {[path |-> PUndef, query |-> q, topK |-> k] : q \in Queries, k \in TopKs}

ToolNames == {"list_r2_files", "read_r2_file", "search_vectors"}

\* params.name: absent, null, "", 0, a known tool, an unknown tool, a number
Names == {JsUndef, JsNull, JsStr(""), JsNum("0"), JsStr("delete_r2_file"), JsNum("5")}
         \cup {JsStr(n) : n \in ToolNames}

\* body.method
Methods == {JsUndef, JsStr("initialize"), JsStr("tools/list"),
            JsStr("tools/call"), JsStr("resources/list")}
           \cup {JsStr(n) : n \in ToolNames}

Ids == {JsUndef, JsNull, JsNum("7"), JsStr("req-1")}

\* params of a legacy call: the argument mapping itself
LegacyParams ==
    {[NoParams EXCEPT !.present = TRUE, !.own = a] : a \in ArgSets}

\* params of tools/call: {name?, arguments?}
McpParams ==
    {[NoParams EXCEPT !.present = TRUE, !.name = n] : n \in Names}
    \cup {[NoParams EXCEPT !.present = TRUE, !.name = n, !.hasArguments = TRUE,
                           !.arguments = a] : n \in Names, a \in ArgSets}

ParamSets == {NoParams} \cup LegacyParams \cup McpParams

InvalidBody ==
    [kind |-> "invalid", jsonrpc |-> JsUndef, id |-> JsUndef,
     method |-> JsUndef, params |-> NoParams]

\* the JSON text "null"
NullBody == [InvalidBody EXCEPT !.kind = "null"]

ObjectBody(j, i, m, p) ==
    [kind |-> "object", jsonrpc |-> j, id |-> i, method |-> m, params |-> p]

RpcBodies == {ObjectBody(JsStr("2.0"), i, m, p) :
                 i \in Ids, m \in Methods, p \in ParamSets}

FlatBodies == {ObjectBody(j, JsUndef, m, p) :
                 j \in {JsUndef, JsStr("1.0")}, m \in Methods, p \in ParamSets}

Bodies == {InvalidBody, NullBody} \cup RpcBodies \cup FlatBodies

\* bodies sent with a method whose handling never reads the body
UnreadBodies ==
    {InvalidBody, NullBody,
     ObjectBody(JsStr("2.0"), JsNum("7"), JsStr("tools/call"),
                [NoParams EXCEPT !.present = TRUE, !.name = JsStr("list_r2_files")]),
     ObjectBody(JsUndef, JsUndef, JsStr("search_vectors"),
                [NoParams EXCEPT !.present = TRUE, !.own.query = JsStr("cats")])}

HttpMethods == {"GET", "POST", "PUT", "DELETE"}

Requests ==
    {[httpMethod |-> "POST", body |-> b] : b \in Bodies}
    \cup {[httpMethod |-> h, body |-> b] :
             h \in HttpMethods \ {"POST"}, b \in UnreadBodies}

Envs == [R2 : BOOLEAN, AI : BOOLEAN, VECTOR_INDEX : BOOLEAN]

-----------------------------------------------------------------------------
(* Collaborator outcomes *)

Returns(v) == [k |-> "return", thrown |-> NoThrow, val |-> v]
Throws(e) == [k |-> "throw", thrown |-> e, val |-> ""]
Unset == [k |-> "unset", thrown |-> NoThrow, val |-> ""]

\* R2 objects of a listing: with and without httpMetadata.lastModified
FileDated == [key |-> "a/x.txt", size |-> "12", lastModified |-> "2025-01-01"]
FileUndated == [key |-> "a/y.txt", size |-> "0", lastModified |-> ""]
Listings == {<<>>, <<FileDated>>, <<FileDated, FileUndated>>}

\* raw Vectorize matches: with and without metadata
MatchFull ==
    [id |-> "a", score |-> "0.9", hasMetadata |-> TRUE, source |-> "s", text |-> "t"]
MatchBare ==
    [id |-> "b", score |-> "0.5", hasMetadata |-> FALSE, source |-> "", text |-> ""]
MatchLists == {<<>>, <<MatchFull>>, <<MatchFull, MatchBare>>}

ListOutcomes == {Returns(l) : l \in Listings} \cup {Throws(e) : e \in Thrown}
\* R2.get: null or an object
GetOutcomes == {Returns("null"), Returns("object")} \cup {Throws(e) : e \in Thrown}
\* obj.text()
TextOutcomes == {Returns("hello world")} \cup {Throws(e) : e \in Thrown}
\* AI.run: data[0] is an array, is missing, or is something that is no array
RunOutcomes ==
    {Returns("vector"), Returns("missing"), Returns("nonarray")}
    \cup {Throws(e) : e \in Thrown}
\* VECTOR_INDEX.query: {matches}, {results}, {} or undefined
QueryOutcomes ==
    {Returns([field |-> f, list |-> l]) : f \in {"matches", "results"}, l \in MatchLists}
    \cup {Returns([field |-> "neither", list |-> <<>>]),
          Returns([field |-> "undefined", list |-> <<>>])}
    \cup {Throws(e) : e \in Thrown}

NoWorld == [list |-> Unset, get |-> Unset, text |-> Unset, run |-> Unset, query |-> Unset]

RECURSIVE JsonFiles(_)
\* the members of JSON.stringify(files): lastModified || null
JsonFiles(fs) ==
    IF fs = <<>> THEN ""
    ELSE "{key:" \o Head(fs).key \o ",size:" \o Head(fs).size \o ",lastModified:"
         \o (IF Head(fs).lastModified = "" THEN "null" ELSE Head(fs).lastModified)
         \o "}" \o JsonFiles(Tail(fs))

RECURSIVE JsonMatches(_)
\* the members of JSON.stringify(matches) after the map of searchVectors:
\* source and text are undefined (dropped) without metadata, metadata || {}
JsonMatches(ms) ==
    IF ms = <<>> THEN ""
    ELSE "{id:" \o Head(ms).id \o ",score:" \o Head(ms).score
         \o (IF Head(ms).hasMetadata
             THEN ",source:" \o Head(ms).source \o ",text:" \o Head(ms).text
                  \o ",metadata:{source:" \o Head(ms).source \o ",text:"
                  \o Head(ms).text \o "}"
             ELSE ",metadata:{}")
         \o "}" \o JsonMatches(Tail(ms))

-----------------------------------------------------------------------------
(* The handler, between awaits.  s is the state of one request:              *)
(* [pc, env, req, loc, world, calls, route, resp].                           *)

NoLocals == [via |-> "", id |-> JsUndef, path |-> "", topK |-> ""]

Arrived(e, r) ==
    [pc |-> "fetch", env |-> e, req |-> r, loc |-> NoLocals, world |-> NoWorld,
     calls |-> <<>>, route |-> <<>>, resp |-> NoResponse]

\* fetch() settles with response r
Finish(s, r) == [s EXCEPT !.pc = "done", !.resp = r]

\* a collaborator call is issued and awaited
Call(s, op, arg, next) ==
    [s EXCEPT !.pc = next, !.calls = Append(@, [op |-> op, arg |-> arg])]

Enter(s, component) == [s EXCEPT !.route = Append(@, component)]

\* catch (err) of fetch: `Internal error: ${err.message}` with id null;
\* reading .message of a thrown null/undefined throws out of the catch block
CatchAll(s, e) ==
    IF MessageReadThrows(e)
    THEN Finish(s, Rejected)
    ELSE Finish(s, jsonRpcError(JsNull, CodeInternalError,
                                "Internal error: " \o MessageText(e)))

\* envelope of a tool's content text on the path the request took
Content(s, text) ==
    IF s.loc.via = "legacy"
    THEN Finish(s, legacyJson(text))
    ELSE Finish(s, jsonRpcResult(s.loc.id, "content", text))

\* catch (e) around searchVectors, legacy copy
LegacySearchCatch(s, e) ==
    IF MessageReadThrows(e)
    THEN CatchAll(s, TypeErrorMessage)
    ELSE Finish(s, legacyJson("Error running search_vectors: " \o MessageText(e)))

\* catch (e) around searchVectors, MCP copy
McpSearchCatch(s, e) ==
    IF MessageReadThrows(e)
    THEN CatchAll(s, TypeErrorMessage)
    ELSE Finish(s, jsonRpcResult(s.loc.id, "content",
                                 "Error running search_vectors: " \o MessageText(e)))

SearchCatch(s, e) ==
    IF s.loc.via = "legacy" THEN LegacySearchCatch(s, e) ELSE McpSearchCatch(s, e)

\* searchVectors up to its first await: the two binding checks, then AI.run
searchVectors(s, query) ==
    LET t == Enter(s, "searchVectors") IN
    IF ~t.env.VECTOR_INDEX
    THEN SearchCatch(t, ErrorOf("VECTOR_INDEX binding is missing. Add a [[vectorize]] binding in wrangler.toml."))
    ELSE IF ~t.env.AI
    THEN SearchCatch(t, ErrorOf("AI binding is missing. Add an [ai] binding in wrangler.toml or adjust searchVectors to use your embedding provider."))
    ELSE Call(t, "AI.run", Render(query), "run")

\* EmbeddingExtracted without Array.isArray: any truthy data[0] passes
EmbeddingExtractedAnyTruthy(v) == v # "missing"

\* Array.isArray(embedding) with embedding truthy
EmbeddingExtracted(v) == v = "vector"

\* after AI.run: extract data[0], then VECTOR_INDEX.query(embedding, {topK})
RunReturned(s, o) ==
    LET t == [s EXCEPT !.world.run = o] IN
    IF o.k = "throw" THEN SearchCatch(t, o.thrown)
    ELSE IF ~EmbeddingExtracted(o.val)
    THEN SearchCatch(t, ErrorOf("Could not extract embedding from Workers AI response."))
    ELSE Call(t, "VECTOR_INDEX.query", t.loc.topK, "query")

\* vectorResult.matches || vectorResult.results || []
MatchesOf(v) == IF v.field \in {"matches", "results"} THEN v.list ELSE <<>>

\* after VECTOR_INDEX.query: normalize the matches, JSON.stringify them
QueryReturned(s, o) ==
    LET t == [s EXCEPT !.world.query = o] IN
    IF o.k = "throw" THEN SearchCatch(t, o.thrown)
    ELSE IF o.val.field = "undefined"
    THEN SearchCatch(t, ErrorOf("Cannot read properties of undefined (reading 'matches')"))
    ELSE Content(t, "[" \o JsonMatches(MatchesOf(o.val)) \o "]")

\* LegacyPrefix without the root case: "/" is kept
LegacyPrefixKeepsRoot(p) ==
    LET c == IF p.t \in {"undefined", "null"} THEN <<>> ELSE p.c IN
    IF p.t \notin {"undefined", "null", "string"}
    THEN [ok |-> FALSE, prefix |-> <<>>]
    ELSE IF c = <<>> THEN [ok |-> TRUE, prefix |-> <<>>]
    ELSE IF ~EndsWithSlash(c) THEN [ok |-> TRUE, prefix |-> Append(c, "/")]
    ELSE [ok |-> TRUE, prefix |-> c]

\* prefix normalization of the legacy list_r2_files: params?.path ?? "";
\* endsWith is no function of a value that is not a string
LegacyPrefix(p) ==
    LET c == IF p.t \in {"undefined", "null"} THEN <<>> ELSE p.c IN
    IF p.t \notin {"undefined", "null", "string"}
    THEN [ok |-> FALSE, prefix |-> <<>>]
    ELSE IF c = <<>> \/ c = <<"/">> THEN [ok |-> TRUE, prefix |-> <<>>]
    ELSE IF ~EndsWithSlash(c) THEN [ok |-> TRUE, prefix |-> Append(c, "/")]
    ELSE [ok |-> TRUE, prefix |-> c]

\* prefix normalization of the MCP list_r2_files: args.path ?? ""
McpPrefix(p) ==
    LET c == IF p.t \in {"undefined", "null"} THEN <<>> ELSE p.c IN
    IF p.t \notin {"undefined", "null", "string"}
    THEN [ok |-> FALSE, prefix |-> <<>>]
    ELSE IF c = <<>> \/ c = <<"/">> THEN [ok |-> TRUE, prefix |-> <<>>]
    ELSE IF ~EndsWithSlash(c) THEN [ok |-> TRUE, prefix |-> Append(c, "/")]
    ELSE [ok |-> TRUE, prefix |-> c]

\* env.R2.list({prefix}) is issued, or the code before it throws
ListStart(s, n) ==
    IF ~n.ok THEN CatchAll(s, ErrorOf("prefix.endsWith is not a function"))
    ELSE IF ~s.env.R2
    THEN CatchAll(s, ErrorOf("Cannot read properties of undefined (reading 'list')"))
    ELSE Call(s, "R2.list", Text(n.prefix), "list")

\* after R2.list: map the objects, JSON.stringify them
ListReturned(s, o) ==
    LET t == [s EXCEPT !.world.list = o] IN
    IF o.k = "throw" THEN CatchAll(t, o.thrown)
    ELSE Content(t, "[" \o JsonFiles(o.val) \o "]")

\* env.R2.get(path) is issued, or env.R2 is undefined
GetStart(s, p) ==
    IF ~s.env.R2
    THEN CatchAll(s, ErrorOf("Cannot read properties of undefined (reading 'get')"))
    ELSE Call([s EXCEPT !.loc.path = Text(p.c)], "R2.get", Text(p.c), "get")

\* after R2.get: not found, or obj.text() is issued
GetReturned(s, o) ==
    LET t == [s EXCEPT !.world.get = o] IN
    IF o.k = "throw" THEN CatchAll(t, o.thrown)
    ELSE IF o.val = "null"
    THEN Content(t, "Error: File \"" \o t.loc.path \o "\" not found")
    ELSE Call(t, "obj.text", t.loc.path, "text")

\* after obj.text(): the text, verbatim
TextReturned(s, o) ==
    LET t == [s EXCEPT !.world.text = o] IN
    IF o.k = "throw" THEN CatchAll(t, o.thrown)
    ELSE Content(t, o.val)

-----------------------------------------------------------------------------
(* The handler, from a parsed body to its first await *)

\* topK ?? 5
DefaultTopK == JsNum("5")

\* ToolNameMissing as `toolName === undefined`
ToolNameMissingOnlyUndefined(name) == name.t = "undefined"

\* if (!toolName)
ToolNameMissing(name) == ~Truthy(name)

\* handleJsonRpc(body, env) up to its first await or its return
handleJsonRpc(s) ==
    LET b == s.req.body
        id == b.id
        method == b.method
        toolName == b.params.name
        args == IF b.params.hasArguments THEN b.params.arguments ELSE NoArgs
        t == Enter([s EXCEPT !.loc.via = "mcp", !.loc.id = id], "handleJsonRpc")
    IN
    IF method = JsStr("initialize")
    THEN Finish(t, jsonRpcResult(id, "initialize", ""))
    ELSE IF method = JsStr("tools/list")
    THEN Finish(t, jsonRpcResult(id, "tools", ""))
    ELSE IF method = JsStr("tools/call")
    THEN IF ToolNameMissing(toolName)
         THEN Finish(t, jsonRpcError(id, CodeInvalidParams,
                                     "Missing tool name in params.name"))
         ELSE IF toolName = JsStr("list_r2_files")
         THEN ListStart(Enter(t, "list_r2_files"), McpPrefix(args.path))
         ELSE IF toolName = JsStr("read_r2_file")
         THEN IF ~PTruthy(args.path)
              THEN Content(Enter(t, "read_r2_file"), "Error: missing 'path' argument")
              ELSE GetStart(Enter(t, "read_r2_file"), args.path)
         ELSE IF toolName = JsStr("search_vectors")
         THEN IF ~Truthy(args.query)
              THEN Content(Enter(t, "search_vectors"), "Error: missing 'query' argument")
              ELSE searchVectors(
                       [Enter(t, "search_vectors") EXCEPT
                           !.loc.topK = Render(Coalesce(args.topK, DefaultTopK))],
                       args.query)
         ELSE Finish(t, jsonRpcError(id, CodeMethodNotFound,
                                     "Unknown tool: " \o Render(toolName)))
    ELSE Finish(t, jsonRpcError(id, CodeMethodNotFound,
                                "Unknown method: " \o Render(method)))

\* the legacy branches of fetch: { method, params } = body || {}
LegacyDispatch(s) ==
    LET b == s.req.body
        method == IF b.kind = "object" THEN b.method ELSE JsUndef
        params == IF b.kind = "object" /\ b.params.present THEN b.params.own ELSE NoArgs
        t == Enter([s EXCEPT !.loc.via = "legacy"], "legacy")
    IN
    IF method = JsStr("list_r2_files")
    THEN ListStart(Enter(t, "list_r2_files"), LegacyPrefix(params.path))
    ELSE IF method = JsStr("read_r2_file")
    THEN IF ~PTruthy(params.path)
         THEN Content(Enter(t, "read_r2_file"), "Error: missing 'path'")
         ELSE GetStart(Enter(t, "read_r2_file"), params.path)
    ELSE IF method = JsStr("search_vectors")
    THEN IF ~Truthy(params.query)
         THEN Content(Enter(t, "search_vectors"), "Error: missing 'query'")
         ELSE searchVectors(
                  [Enter(t, "search_vectors") EXCEPT
                      !.loc.topK = Render(Coalesce(params.topK, DefaultTopK))],
                  params.query)
    ELSE Content(t, "Unknown method: " \o Render(method))

\* RequestClass without the POST check: every method but GET goes on to parse
RequestClassNoPostCheck(h) == IF h = "GET" THEN "health" ELSE "post"

\* the classification by HTTP method
RequestClass(h) ==
    IF h = "GET" THEN "health" ELSE IF h # "POST" THEN "badmethod" ELSE "post"

\* fetch up to await request.json()
FetchStart(s) ==
    LET class == RequestClass(s.req.httpMethod) IN
    IF class = "health" THEN Finish(s, HealthResponse)
    ELSE IF class = "badmethod"
    THEN Finish(s, jsonRpcError(JsNull, CodeInvalidRequest,
                                "Invalid request method (POST required)"))
    ELSE [s EXCEPT !.pc = "json"]

\* body && body.jsonrpc === "2.0"
IsJsonRpc(b) == b.kind = "object" /\ b.jsonrpc = JsStr("2.0")

\* after request.json(): parse error, the MCP handler, or the legacy branches
JsonParsed(s) ==
    IF s.req.body.kind = "invalid"
    THEN Finish(s, jsonRpcError(JsNull, CodeParseError, "Parse error: invalid JSON"))
    ELSE IF IsJsonRpc(s.req.body) THEN handleJsonRpc(s)
    ELSE LegacyDispatch(s)

-----------------------------------------------------------------------------
(* The state machine *)

State ==
    [pc |-> pc, env |-> env, req |-> req, loc |-> loc, world |-> world,
     calls |-> calls, route |-> route, resp |-> resp]

Becomes(s) ==
    /\ pc' = s.pc
    /\ env' = s.env
    /\ req' = s.req
    /\ loc' = s.loc
    /\ world' = s.world
    /\ calls' = s.calls
    /\ route' = s.route
    /\ resp' = s.resp

\* the Worker is deployed with some of its bindings; no request yet
Init ==
    /\ pc = "idle"
    /\ env \in Envs
    /\ req = [httpMethod |-> "", body |-> InvalidBody]
    /\ loc = NoLocals
    /\ world = NoWorld
    /\ calls = <<>>
    /\ route = <<>>
    /\ resp = NoResponse

\* the runtime invokes fetch(request, env) for the next request
Receive ==
    /\ pc = "idle"
    /\ \E r \in Requests : Becomes(Arrived(env, r))

\* the settled promise is handed to the runtime; nothing of the request is kept
Respond ==
    /\ pc = "done"
    /\ pc' = "idle"
    /\ req' = [httpMethod |-> "", body |-> InvalidBody]
    /\ loc' = NoLocals
    /\ world' = NoWorld
    /\ calls' = <<>>
    /\ route' = <<>>
    /\ resp' = NoResponse
    /\ UNCHANGED env

Dispatch ==
    /\ pc = "fetch"
    /\ Becomes(FetchStart(State))

ParseBody ==
    /\ pc = "json"
    /\ Becomes(JsonParsed(State))

ListSettles ==
    /\ pc = "list"
    /\ \E o \in ListOutcomes : Becomes(ListReturned(State, o))

GetSettles ==
    /\ pc = "get"
    /\ \E o \in GetOutcomes : Becomes(GetReturned(State, o))

TextSettles ==
    /\ pc = "text"
    /\ \E o \in TextOutcomes : Becomes(TextReturned(State, o))

RunSettles ==
    /\ pc = "run"
    /\ \E o \in RunOutcomes : Becomes(RunReturned(State, o))

QuerySettles ==
    /\ pc = "query"
    /\ \E o \in QueryOutcomes : Becomes(QueryReturned(State, o))

Next ==
    \/ Receive
    \/ Dispatch
    \/ ParseBody
    \/ ListSettles
    \/ GetSettles
    \/ TextSettles
    \/ RunSettles
    \/ QuerySettles
    \/ Respond

Spec == Init /\ [][Next]_vars

-----------------------------------------------------------------------------
(* Vocabulary of the properties *)

Done == pc = "done"
Post == req.httpMethod = "POST"
Body == req.body

IsRpcResult(r) ==
    /\ r.settled = "returned"
    /\ r.jsonrpc = "2.0" /\ r.hasResult /\ ~r.hasError /\ ~r.hasContent

IsRpcError(r) ==
    /\ r.settled = "returned"
    /\ r.jsonrpc = "2.0" /\ r.hasError /\ ~r.hasResult /\ ~r.hasContent

IsLegacyContent(r) ==
    /\ r.settled = "returned"
    /\ r.jsonrpc = "" /\ r.hasContent /\ ~r.hasResult /\ ~r.hasError /\ ~r.hasId

\* the id member of an envelope (undefined when the member is absent)
EnvelopeId(r) == IF r.hasId THEN r.id ELSE JsUndef

\* the text of the content block of a response, if it has one
HasContentText(r) ==
    IsLegacyContent(r) \/ (IsRpcResult(r) /\ r.result = "content")

IsToolsCall == Post /\ IsJsonRpc(Body) /\ Body.method = JsStr("tools/call")

McpArgs == IF Body.params.hasArguments THEN Body.params.arguments ELSE NoArgs

IsLegacy == Post /\ Body.kind # "invalid" /\ ~IsJsonRpc(Body)

LegacyArgs ==
    IF Body.kind = "object" /\ Body.params.present THEN Body.params.own ELSE NoArgs

\* some awaited collaborator call of this request threw
Threw(o) == o.k = "throw"
StorageThrew == Threw(world.list) \/ Threw(world.get) \/ Threw(world.text)
SearchThrew == Threw(world.run) \/ Threw(world.query)

\* the value thrown by the storage call that threw
StorageThrown ==
    IF Threw(world.list) THEN world.list.thrown
    ELSE IF Threw(world.get) THEN world.get.thrown
    ELSE world.text.thrown

-----------------------------------------------------------------------------
(* C1 *)

\* C1: every request is answered with one response of status 200, and every
\* request that is no GET with exactly one of the three envelopes (a JSON-RPC
\* envelope never carrying both result and error), whatever the collaborators
\* return or throw.
C1_OneEnvelopeAlways ==
    Done =>
        /\ resp.settled = "returned"
        /\ resp.status = 200
        /\ req.httpMethod # "GET" =>
              \/ IsRpcResult(resp)
              \/ IsRpcError(resp)
              \/ IsLegacyContent(resp)

-----------------------------------------------------------------------------
(* C2 *)

\* the tool named by a tools/call request
CalledTool == Body.params.name.s

\* the execution of the called tool failed: an awaited call threw, or the
\* binding the tool is about to use is missing
ToolExecutionFailed ==
    \/ StorageThrew
    \/ SearchThrew
    \/ /\ CalledTool = "list_r2_files"
       /\ McpArgs.path.t \in {"undefined", "null", "string"}
       /\ ~env.R2
    \/ /\ CalledTool = "read_r2_file"
       /\ PTruthy(McpArgs.path)
       /\ ~env.R2
    \/ /\ CalledTool = "search_vectors"
       /\ Truthy(McpArgs.query)
       /\ (~env.AI \/ ~env.VECTOR_INDEX)

\* C2: a failure while a known tool of a tools/call request executes is never
\* a JSON-RPC error object: the response is a JSON-RPC Result whose content
\* text tells the error.
C2_ToolFailureIsResultText ==
    (/\ Done
     /\ IsToolsCall
     /\ Body.params.name \in {JsStr(n) : n \in ToolNames}
     /\ ToolExecutionFailed)
    => (IsRpcResult(resp) /\ resp.result = "content" /\ resp.text # "")

-----------------------------------------------------------------------------
(* C3 *)

\* C3: an exception that no Tool Executor catches (here: thrown by a storage
\* call, on either path, whatever the value thrown) becomes the JSON-RPC error
\* -32603 with id null and the message "Internal error: <exception message>",
\* status 200; fetch itself never rejects.
C3_UncaughtBecomesInternalError ==
    (Done /\ StorageThrew) =>
        /\ resp.settled = "returned"
        /\ resp.status = 200
        /\ IsRpcError(resp)
        /\ resp.code = CodeInternalError
        /\ resp.hasId /\ resp.id = JsNull
        /\ StorageThrown.k = "Error" =>
              resp.message = "Internal error: " \o StorageThrown.message

-----------------------------------------------------------------------------
(* C4 *)

\* C4: the envelope answering a JSON-RPC 2.0 POST carries the id of the
\* request, unchanged, on every outcome, a collaborator throwing during
\* tools/call included.
C4_IdEchoed ==
    (Done /\ Post /\ IsJsonRpc(Body) /\ resp.settled = "returned")
    => EnvelopeId(resp) = Body.id

-----------------------------------------------------------------------------
(* C6 *)

\* C6: a POST whose body is JSON without jsonrpc "2.0" is answered with a
\* Legacy Content envelope and never with a JSON-RPC envelope, also when the
\* storage collaborator throws or the path of list_r2_files is no string; an
\* unknown or absent method yields the text "Unknown method: <method>".
C6_LegacyAlwaysContent ==
    (Done /\ IsLegacy) =>
        /\ IsLegacyContent(resp)
        /\ (Body.kind = "object" /\ Body.method.t = "string"
            /\ Body.method.s \notin ToolNames)
           => resp.text = "Unknown method: " \o Body.method.s

-----------------------------------------------------------------------------
(* C5 *)

RECURSIVE Replay(_, _)
\* the handler run to its end from s, every awaited call settling as it did
\* in w; the run stops short where w holds no outcome for the call awaited
Replay(s, w) ==
    IF s.pc = "fetch" THEN Replay(FetchStart(s), w)
    ELSE IF s.pc = "json" THEN Replay(JsonParsed(s), w)
    ELSE IF s.pc = "list" /\ w.list.k # "unset" THEN Replay(ListReturned(s, w.list), w)
    ELSE IF s.pc = "get" /\ w.get.k # "unset" THEN Replay(GetReturned(s, w.get), w)
    ELSE IF s.pc = "text" /\ w.text.k # "unset" THEN Replay(TextReturned(s, w.text), w)
    ELSE IF s.pc = "run" /\ w.run.k # "unset" THEN Replay(RunReturned(s, w.run), w)
    ELSE IF s.pc = "query" /\ w.query.k # "unset"
    THEN Replay(QueryReturned(s, w.query), w)
    ELSE s

\* the MCP call of the same tool with the same argument mapping
McpTwin(tool, args) ==
    [httpMethod |-> "POST",
     body |-> ObjectBody(JsStr("2.0"), JsNum("7"), JsStr("tools/call"),
                         [NoParams EXCEPT !.present = TRUE, !.name = JsStr(tool),
                                          !.hasArguments = TRUE, !.arguments = args])]

\* the current request is the legacy call {method: tool, params: args}
IsLegacyToolCall ==
    /\ IsLegacy
    /\ Body.kind = "object"
    /\ Body.method \in {JsStr(n) : n \in ToolNames}
    /\ Body.params.present

\* the response of the MCP twin of the current legacy call, with the same
\* bindings and the same collaborator behaviour
TwinRun == Replay(Arrived(env, McpTwin(Body.method.s, LegacyArgs)), world)

\* C5: for each tool and every argument mapping, with the same collaborator
\* behaviour, the legacy call and the MCP call produce the same content text
\* (only the envelope differs); search_vectors without query says
\* "Error: missing 'query' argument" on both paths.
C5_SameTextOnBothPaths ==
    (Done /\ IsLegacyToolCall) =>
        /\ TwinRun.pc = "done"
        /\ HasContentText(resp) = HasContentText(TwinRun.resp)
        /\ HasContentText(resp) => resp.text = TwinRun.resp.text
        /\ (Body.method = JsStr("search_vectors") /\ LegacyArgs.query = JsUndef)
           => /\ resp.text = "Error: missing 'query' argument"
              /\ TwinRun.resp.text = "Error: missing 'query' argument"

\* the two paths do agree wherever the argument the tool requires is there
C5_SameTextWhenArgumentGiven ==
    (/\ Done
     /\ IsLegacyToolCall
     /\ Body.method = JsStr("read_r2_file") => PTruthy(LegacyArgs.path)
     /\ Body.method = JsStr("search_vectors") => Truthy(LegacyArgs.query))
    => /\ TwinRun.pc = "done"
       /\ HasContentText(resp) = HasContentText(TwinRun.resp)
       /\ resp.text = TwinRun.resp.text
       /\ resp.message = TwinRun.resp.message
       /\ calls = TwinRun.calls

-----------------------------------------------------------------------------
(* C7 *)

InvalidMethodResponse ==
    jsonRpcError(JsNull, CodeInvalidRequest, "Invalid request method (POST required)")

ParseErrorResponse ==
    jsonRpcError(JsNull, CodeParseError, "Parse error: invalid JSON")

NothingInvoked == calls = <<>> /\ route = <<>>

\* C7: classification comes before routing and before every collaborator
\* call: a method that is neither GET nor POST is answered -32600 with id
\* null, a POST whose body is no JSON -32700 with id null, both with status
\* 200 and with no handler, executor or collaborator invoked; a GET gets the
\* plaintext health message whatever its body.
C7_ClassifiedBeforeRouting ==
    /\ pc \in {"fetch", "json"} => NothingInvoked
    /\ (pc \notin {"idle", "fetch"} /\ req.httpMethod \notin {"GET", "POST"})
       => (Done /\ resp = InvalidMethodResponse /\ resp.status = 200
           /\ resp.id = JsNull /\ resp.code = -32600 /\ NothingInvoked)
    /\ (pc \notin {"idle", "fetch", "json"} /\ Post /\ Body.kind = "invalid")
       => (Done /\ resp = ParseErrorResponse /\ resp.status = 200
           /\ resp.id = JsNull /\ resp.code = -32700 /\ NothingInvoked)
    /\ (pc \notin {"idle", "fetch"} /\ req.httpMethod = "GET")
       => (Done /\ resp = HealthResponse /\ resp.status = 200 /\ NothingInvoked)

\* a PUT carrying a tools/call body has been answered -32600
C7_Witness ==
    /\ Done
    /\ req.httpMethod = "PUT"
    /\ Body.method = JsStr("tools/call")
    /\ resp.code = -32600
    /\ env.R2

-----------------------------------------------------------------------------
(* C8 *)

KnownToolName(name) == name \in {JsStr(n) : n \in ToolNames}

McpMethods == {JsStr("initialize"), JsStr("tools/list"), JsStr("tools/call")}

\* C8 as stated: tools/call without params.name is answered -32602, with any
\* name other than the three known ones -32601 "Unknown tool: <name>", any
\* other method -32601 "Unknown method: <method>"; no collaborator is invoked.
C8_AsStated ==
    (Done /\ Post /\ IsJsonRpc(Body)) =>
        /\ (Body.method = JsStr("tools/call") /\ Body.params.name = JsUndef)
           => (IsRpcError(resp) /\ resp.code = -32602 /\ calls = <<>>)
        /\ (Body.method = JsStr("tools/call") /\ Body.params.name.t = "string"
            /\ ~KnownToolName(Body.params.name))
           => (/\ IsRpcError(resp)
               /\ resp.code = -32601
               /\ resp.message = "Unknown tool: " \o Body.params.name.s
               /\ calls = <<>>)
        /\ Body.method \notin McpMethods
           => (/\ IsRpcError(resp)
               /\ resp.code = -32601
               /\ calls = <<>>)

\* a name that ToBoolean takes for false
FalsyName(name) ==
    name.t \in {"undefined", "null"} \/ name = JsStr("") \/ name = JsNum("0")

\* C8, amended: tools/call whose params.name is absent or falsy (null, "", 0)
\* is answered -32602 before any tool is matched; with a truthy name other
\* than the three known ones -32601 "Unknown tool: <name>"; any method other
\* than initialize, tools/list and tools/call -32601 "Unknown method:
\* <method>"; each with the id of the request and no collaborator invoked.
C8_FalsyNameIsMissing ==
    (Done /\ Post /\ IsJsonRpc(Body)) =>
        /\ (Body.method = JsStr("tools/call") /\ FalsyName(Body.params.name))
           => (/\ IsRpcError(resp)
               /\ resp.code = -32602
               /\ resp.message = "Missing tool name in params.name"
               /\ EnvelopeId(resp) = Body.id
               /\ calls = <<>>
               /\ route = <<"handleJsonRpc">>)
        /\ (Body.method = JsStr("tools/call") /\ ~FalsyName(Body.params.name)
            /\ ~KnownToolName(Body.params.name))
           => (/\ IsRpcError(resp)
               /\ resp.code = -32601
               /\ resp.message = "Unknown tool: " \o Body.params.name.s
               /\ EnvelopeId(resp) = Body.id
               /\ calls = <<>>
               /\ route = <<"handleJsonRpc">>)
        /\ Body.method \notin McpMethods
           => (/\ IsRpcError(resp)
               /\ resp.code = -32601
               /\ resp.message = "Unknown method: "
                     \o (IF Body.method.t = "string" THEN Body.method.s ELSE "undefined")
               /\ EnvelopeId(resp) = Body.id
               /\ calls = <<>>
               /\ route = <<"handleJsonRpc">>)

\* tools/call with the name "" has been answered -32602
C8_Witness ==
    /\ Done
    /\ IsToolsCall
    /\ Body.params.name = JsStr("")
    /\ resp.code = -32602

-----------------------------------------------------------------------------
(* C9 *)

\* the request runs list_r2_files, on either path, with a path that is a
\* string or is left out
IsListCall ==
    \/ IsLegacy /\ Body.kind = "object" /\ Body.method = JsStr("list_r2_files")
    \/ IsToolsCall /\ Body.params.name = JsStr("list_r2_files")

ListPath == IF IsLegacy THEN LegacyArgs.path ELSE McpArgs.path

\* the characters of the path as given ("" when it is left out)
GivenChars == IF ListPath.t = "string" THEN ListPath.c ELSE <<>>

\* the prefix the specification asks for
ExpectedPrefix ==
    IF GivenChars = <<>> \/ GivenChars = <<"/">> THEN <<>>
    ELSE IF GivenChars[Len(GivenChars)] # "/" THEN GivenChars \o <<"/">>
    ELSE GivenChars

\* the normalization the path of the request went through
AppliedPrefix(p) == IF IsLegacy THEN LegacyPrefix(p) ELSE McpPrefix(p)

\* C9: on both paths list_r2_files maps a path left out, "" and "/" to the
\* empty prefix, appends "/" to any other value not ending in "/", keeps a
\* value ending in "/", normalizing twice is normalizing once, and the
\* storage list operation is called exactly once, with that prefix.
C9_PrefixNormalized ==
    (/\ pc \notin {"idle", "fetch", "json"}
     /\ IsListCall
     /\ ListPath.t \in {"undefined", "null", "string"}
     /\ env.R2)
    => /\ calls = <<[op |-> "R2.list", arg |-> Text(ExpectedPrefix)]>>
       /\ AppliedPrefix(ListPath) = [ok |-> TRUE, prefix |-> ExpectedPrefix]
       /\ AppliedPrefix(PStr(ExpectedPrefix)) = [ok |-> TRUE, prefix |-> ExpectedPrefix]

\* the legacy list_r2_files was given "/" and has listed the empty prefix
C9_Witness ==
    /\ Done
    /\ IsLegacy
    /\ IsListCall
    /\ ListPath = PStr(<<"/">>)
    /\ calls = <<[op |-> "R2.list", arg |-> ""]>>
    /\ IsLegacyContent(resp)

-----------------------------------------------------------------------------
(* C10 *)

Ops == [i \in 1..Len(calls) |-> calls[i].op]

MissingBindingMessages ==
    {"VECTOR_INDEX binding is missing. Add a [[vectorize]] binding in wrangler.toml.",
     "AI binding is missing. Add an [ai] binding in wrangler.toml or adjust searchVectors to use your embedding provider."}

InSearch == Len(route) > 0 /\ route[Len(route)] = "searchVectors"

\* C10: in the semantic search adapter a missing binding fails before any
\* call; otherwise the embedding is asked for exactly once and first; the
\* index is queried at most once and only after an array was extracted from
\* the embedding response; an index response with neither matches nor
\* results gives the empty match list, no error.
C10_SearchCallsOrdered ==
    InSearch =>
        /\ (~env.VECTOR_INDEX \/ ~env.AI)
           => (/\ calls = <<>>
               /\ Done
               /\ HasContentText(resp)
               /\ resp.text \in {"Error running search_vectors: " \o m :
                                    m \in MissingBindingMessages})
        /\ (env.VECTOR_INDEX /\ env.AI) =>
              /\ Ops \in {<<"AI.run">>, <<"AI.run", "VECTOR_INDEX.query">>}
              /\ Ops = <<"AI.run", "VECTOR_INDEX.query">>
                 => world.run = Returns("vector")
              /\ (world.run.k # "unset" /\ world.run # Returns("vector"))
                 => (Done /\ Ops = <<"AI.run">>)
              /\ pc = "run" => Ops = <<"AI.run">>
              /\ pc = "query" => Ops = <<"AI.run", "VECTOR_INDEX.query">>
        /\ (Done /\ world.query.k = "return" /\ world.query.val.field = "neither")
           => (HasContentText(resp) /\ resp.text = "[]")

\* the index answered with neither matches nor results and the tool said []
C10_Witness ==
    /\ Done
    /\ InSearch
    /\ Ops = <<"AI.run", "VECTOR_INDEX.query">>
    /\ world.query.k = "return"
    /\ world.query.val.field = "neither"
    /\ resp.text = "[]"

====
